---- MODULE Spec2Model ----
(***************************************************************************)
(* Highway network preparation (tm2py, PrepareNetwork): the run() loop     *)
(* over time periods, the static and dynamic toll policies, VDF            *)
(* attributes, link modes, skim lengths, class costs, total flow and the   *)
(* run-level dynamic-toll state kept on the controller.                    *)
(*                                                                         *)
(* Units.  Money is held in cents and toll rates in cents per mile, so     *)
(* the source's "rate * 100" is the identity on a rate already in cents    *)
(* and VALUETOLL_INCREMENT (0.25 dollars per mile) is 25.  @vc is held in  *)
(* tenths (14 is 1.4).  Lengths are whole miles, so that                   *)
(* (valuetoll / length) / 100 is exact, as it is in the source for         *)
(* multiples of a quarter dollar.                                          *)
(***************************************************************************)
EXTENDS Integers, Sequences, FiniteSets

VARIABLES
    cfg,                  \* the configuration (controller.config), fixed at construction
    iteration,            \* controller.iteration (overall iteration)
    dynamic_toll_iter,    \* controller._dynamic_toll_iter
    stop_dynamic_toll,    \* controller._stop_dynamic_toll
    dynamic_toll_change,  \* self.dynamic_toll_change
    scenario,             \* stored graph of each time period: link -> attributes
    network,              \* the snapshot run() works on (scenario.get_network())
    pc,                   \* position in validate_inputs / run / between calls
    time,                 \* index in time_period_names of the period in hand
    trace,                \* steps of run() finished on the snapshot in hand, in order
    created,              \* per period: times _create_class_attributes ran
    published,            \* per period: publish_network calls in this run() call
    calls,                \* run() calls started
    error                 \* kind of the fatal error raised, "" when none

vars == <<cfg, iteration, dynamic_toll_iter, stop_dynamic_toll, dynamic_toll_change,
          scenario, network, pc, time, trace, created, published, calls, error>>

----------------------------------------------------------------------------
(* Bounds of the model. *)

\* run() calls in one overall run
MaxCalls == 4

\* largest overall iteration the controller reaches
MaxIteration == 1

----------------------------------------------------------------------------
(* Configuration and inputs. *)

\* self.time_period_names, in order
time_period_names == <<"AM", "PM">>

Periods == {time_period_names[i] : i \in 1..Len(time_period_names)}

\* config.tolls.src_vehicle_group_names / dst_vehicle_group_names (zipped)
src_vehicle_group_names == <<"da", "s2">>

dst_vehicle_group_names == <<"da", "sr2">>

SrcVehGroups == {src_vehicle_group_names[i] : i \in 1..Len(src_vehicle_group_names)}

DstVehGroups == {dst_vehicle_group_names[i] : i \in 1..Len(dst_vehicle_group_names)}

\* config.tolls.valuetoll_start_tollbooth_code
valuetoll_start_tollbooth_code == 11

\* VALUETOLL_INCREMENT = 0.25 dollars per mile, in cents per mile
VALUETOLL_INCREMENT == 25

\* config.tolls.max_dynamic_valuetoll, in cents per mile
max_dynamic_valuetoll == 50

\* config.highway.generic_highway_mode_code and config.highway.maz_to_maz
generic_highway_mode_code == "c"

maz_to_maz == [mode_code |-> "x", excluded_links |-> <<"is_toll_da", "is_sr">>]

\* config.highway.classes: a valid list, and one whose classes "da" and "sr2"
\* share a mode code with different excluded_links
ClassesValid ==
    << [name |-> "da", mode_code |-> "d",
        excluded_links |-> <<"is_toll_da", "is_sr">>,
        toll |-> {<<"bridge", "da">>},
        operating_cost_per_mile |-> 17, toll_factor |-> <<>>],
       [name |-> "sr2", mode_code |-> "s",
        excluded_links |-> <<"is_toll_sr2", "is_sr3">>,
        toll |-> {<<"bridge", "sr2">>},
        operating_cost_per_mile |-> 17, toll_factor |-> <<2>>],
       [name |-> "datoll", mode_code |-> "D",
        excluded_links |-> <<"is_sr">>,
        toll |-> {<<"bridge", "da">>, <<"value", "da">>},
        operating_cost_per_mile |-> 17, toll_factor |-> <<>>] >>

ClassesConflict ==
    [ClassesValid EXCEPT ![2].mode_code = "d"]

ClassNames == {ClassesValid[i].name : i \in 1..Len(ClassesValid)}

\* config.highway.capclass_lookup and the periods' highway_capacity_factor
capclass_lookup ==
    << [capclass |-> 1, capacity |-> 2000, critical_speed |-> 40],
       [capclass |-> 2, capacity |-> 900, critical_speed |-> 20] >>

highway_capacity_factor == [t \in Periods |-> IF t = "AM" THEN 3 ELSE 4]

(* The links of the network with their input attributes; every time      *)
(* period's scenario holds the same links.                               *)
Links == {"arterial", "bridge", "hovbridge", "express", "busway", "connector"}

LinkInput ==
    [l \in Links |->
        CASE l = "arterial" ->
               [tollbooth |-> 0, tollseg |-> 0, useclass |-> 0, length |-> 1, lanes |-> 2,
                ft |-> 4, capclass |-> 2, free_flow_speed |-> 30, drive_link |-> 1,
                i_maz_id |-> 0, j_maz_id |-> 0]
          [] l = "bridge" ->
               [tollbooth |-> 1, tollseg |-> 1, useclass |-> 0, length |-> 3, lanes |-> 12,
                ft |-> 1, capclass |-> 1, free_flow_speed |-> 60, drive_link |-> 1,
                i_maz_id |-> 0, j_maz_id |-> 0]
          [] l = "hovbridge" ->
               [tollbooth |-> 2, tollseg |-> 0, useclass |-> 3, length |-> 3, lanes |-> 1,
                ft |-> 3, capclass |-> 1, free_flow_speed |-> 60, drive_link |-> 1,
                i_maz_id |-> 0, j_maz_id |-> 0]
          [] l = "express" ->
               [tollbooth |-> 11, tollseg |-> 1, useclass |-> 0, length |-> 2, lanes |-> 2,
                ft |-> 2, capclass |-> 1, free_flow_speed |-> 60, drive_link |-> 1,
                i_maz_id |-> 0, j_maz_id |-> 0]
          [] l = "busway" ->
               [tollbooth |-> 0, tollseg |-> 0, useclass |-> 0, length |-> 1, lanes |-> 0,
                ft |-> 99, capclass |-> 2, free_flow_speed |-> 0, drive_link |-> 0,
                i_maz_id |-> 0, j_maz_id |-> 0]
          [] OTHER ->
               [tollbooth |-> 0, tollseg |-> 0, useclass |-> 0, length |-> 1, lanes |-> 1,
                ft |-> 7, capclass |-> 2, free_flow_speed |-> 25, drive_link |-> 1,
                i_maz_id |-> 5, j_maz_id |-> 0]]

(* The toll files: a header (the column names; a toll column is the pair *)
(* of its period and source vehicle group) and the rows by fac_index,    *)
(* each mapping the toll columns to a rate in cents.  A toll_factor is   *)
(* <<>> when the class sets none.                                        *)
TollColumns ==
    {<<t, v>> : t \in Periods, v \in SrcVehGroups}

BridgeRow ==
    [c \in TollColumns |->
        IF c[2] = "da" THEN 250 ELSE IF c[1] = "AM" THEN 125 ELSE 0]

ValueRow == [c \in TollColumns |-> IF c[2] = "da" THEN 10 ELSE 5]

\* tolls.file_path: bridge and value rates
FullTollFile ==
    [header |-> TollColumns \cup {<<"fac_index">>},
     rows |-> [i \in {1010, 11010} |-> IF i = 1010 THEN BridgeRow ELSE ValueRow]]

\* tolls.file_path with one toll column missing from the header
ShortTollFile ==
    [header |-> (TollColumns \ {<<"PM", "s2">>}) \cup {<<"fac_index">>},
     rows |-> FullTollFile.rows]

\* tolls.bridetoll_file_path: the bridge rates only
BridgeTollFile ==
    [header |-> TollColumns \cup {<<"fac_index">>},
     rows |-> [i \in {1010} |-> BridgeRow]]

Configs ==
    [run_dynamic_toll : BOOLEAN,
     file_path : {"missing", "short", "full"},
     bridetoll_file_path : {"missing", "bridge"},
     run_maz_assignment : BOOLEAN,
     apply_msa : BOOLEAN,
     classes : {"valid", "conflict"}]

\* os.path.exists(path), and the file at a path that exists
PathExists(path) == path # "missing"

FileAt(path) ==
    CASE path = "short" -> ShortTollFile
      [] path = "bridge" -> BridgeTollFile
      [] OTHER -> FullTollFile

Classes == IF cfg.classes = "valid" THEN ClassesValid ELSE ClassesConflict

----------------------------------------------------------------------------
(* Link attributes. *)

\* the links of a network, each with its computed attributes
NoTolls == [g \in DstVehGroups |-> 0]

NoClassValues == [c \in ClassNames |-> 0]

(* What a scenario holds before the run: the attributes of an earlier    *)
(* run of the model, which create_extra_attribute(overwrite=True)        *)
(* replaces.                                                             *)
StoredBefore ==
    [l \in Links |->
        [bridgetoll |-> [g \in DstVehGroups |-> 99],
         valuetoll |-> [g \in DstVehGroups |-> 40 * LinkInput[l].length],
         update_dynamic_toll |-> 0,
         vc |-> 26,
         capacity |-> 1,
         volume_delay_func |-> 0,
         num_lanes |-> 10,
         ja |-> 1,
         hov_length |-> 9,
         toll_length |-> 9,
         cost |-> [c \in ClassNames |-> 7],
         flow |-> [c \in ClassNames |-> 3],
         total_flow |-> 5,
         modes |-> IF LinkInput[l].drive_link # 0 THEN {"c", "D"} ELSE {"b", "d"}]]

----------------------------------------------------------------------------
(* _create_class_attributes: every attribute it lists is created anew,   *)
(* with the default value 0 on every link.                               *)
create_class_attributes(links) ==
    [l \in Links |->
        LET a == links[l]
            flows == cfg.apply_msa \/ cfg.run_dynamic_toll
        IN  [a EXCEPT
                !.capacity = 0,
                !.ja = 0,
                !.hov_length = 0,
                !.toll_length = 0,
                !.total_flow = IF flows THEN 0 ELSE @,
                !.vc = IF flows THEN 0 ELSE @,
                !.update_dynamic_toll = IF cfg.run_dynamic_toll THEN 0 ELSE @,
                !.bridgetoll = NoTolls,
                !.valuetoll = NoTolls,
                !.cost = NoClassValues,
                !.flow = NoClassValues]]

----------------------------------------------------------------------------
(* _get_toll_indices and _set_tolls. *)

\* the file's rows by int(fac_index)
get_toll_indices(toll_file_path) == FileAt(toll_file_path).rows

\* int(@tollbooth * 1000 + @tollseg * 10 + @useclass)
TollIndex(l) ==
    LinkInput[l].tollbooth * 1000 + LinkInput[l].tollseg * 10 + LinkInput[l].useclass

\* Python's round() of a number held in tenths: halves go to the even integer
PyRound(tenths) ==
    LET q == tenths \div 10
        r == tenths % 10
    IN  IF r < 5 THEN q
        ELSE IF r > 5 THEN q + 1
        ELSE IF q % 2 = 0 THEN q ELSE q + 1

(* for src_veh, dst_veh in zip(src, dst): link[attr_dst_veh] = f[src_veh]; *)
(* groups the zip does not name keep their value.                         *)
ZipAssign(old, f) ==
    [g \in DstVehGroups |->
        LET is == {i \in 1..Len(dst_vehicle_group_names) :
                      /\ i <= Len(src_vehicle_group_names)
                      /\ dst_vehicle_group_names[i] = g}
        IN  IF is = {} THEN old[g]
            ELSE f[src_vehicle_group_names[CHOOSE i \in is : \A j \in is : j <= i]]]

\* the bridge (point) toll of a link from its data row
BridgeTolls(a, data_row, time_period) ==
    LET rate == [src_veh \in SrcVehGroups |-> data_row[<<time_period, src_veh>>]]
    IN  [a EXCEPT !.bridgetoll = ZipAssign(@, rate)]

\* StaticTollLink writing the bridge toll of every tolled link, value-toll links too
StaticTollLink_BridgeTollAlways(l, a, toll_index, time_period) ==
    LET in == LinkInput[l]
    IN  IF in.tollbooth = 0 THEN a
        ELSE IF TollIndex(l) \notin DOMAIN toll_index THEN a
        ELSE IF in.tollbooth < valuetoll_start_tollbooth_code
             THEN BridgeTolls(a, toll_index[TollIndex(l)], time_period)
             ELSE LET rate == [src_veh \in SrcVehGroups |->
                                  toll_index[TollIndex(l)][<<time_period, src_veh>>]
                                      * in.length]
                  IN  [BridgeTolls(a, toll_index[TollIndex(l)], time_period)
                          EXCEPT !.valuetoll = ZipAssign(@, rate)]

\* static policy, one link (lines 273-299)
StaticTollLink(l, a, toll_index, time_period) ==
    LET in == LinkInput[l]
    IN  IF in.tollbooth = 0 THEN a
        ELSE IF TollIndex(l) \notin DOMAIN toll_index THEN a
        ELSE IF in.tollbooth < valuetoll_start_tollbooth_code
             THEN BridgeTolls(a, toll_index[TollIndex(l)], time_period)
             ELSE LET rate == [src_veh \in SrcVehGroups |->
                                  toll_index[TollIndex(l)][<<time_period, src_veh>>]
                                      * in.length]
                  IN  [a EXCEPT !.valuetoll = ZipAssign(@, rate)]

\* dynamic policy, initial state, one link (lines 225-246)
InitialTollLink(l, a, toll_index, time_period) ==
    LET in == LinkInput[l]
    IN  IF in.tollbooth = 0 THEN a
        ELSE IF in.tollbooth < valuetoll_start_tollbooth_code
             THEN IF TollIndex(l) \notin DOMAIN toll_index THEN a
                  ELSE BridgeTolls(a, toll_index[TollIndex(l)], time_period)
             ELSE LET zero == [src_veh \in SrcVehGroups |-> 0]
                  IN  [a EXCEPT !.update_dynamic_toll = 1,
                                !.valuetoll = ZipAssign(@, zero)]

\* whether the adjustment phase selects the link (lines 254-255)
Selected(l, a) ==
    /\ LinkInput[l].tollbooth > 0
    /\ LinkInput[l].tollbooth >= valuetoll_start_tollbooth_code
    /\ a.vc > 10
    /\ a.update_dynamic_toll = 1

\* the candidate per-mile charge of a vehicle group (lines 257-262)
IncreasedValuetoll(l, a, g) ==
    (a.valuetoll[g] \div LinkInput[l].length) + VALUETOLL_INCREMENT * PyRound(a.vc)

\* AdjustTollLink with the clamp written as max * 100, the link's length left out
AdjustTollLink_ClampWithoutLength(l, a) ==
    IF ~Selected(l, a) THEN a
    ELSE LET capped == \E g \in DstVehGroups :
                           IncreasedValuetoll(l, a, g) > max_dynamic_valuetoll
         IN  [a EXCEPT
                 !.valuetoll =
                     [g \in DstVehGroups |->
                         IF IncreasedValuetoll(l, a, g) > max_dynamic_valuetoll
                         THEN max_dynamic_valuetoll
                         ELSE IncreasedValuetoll(l, a, g) * LinkInput[l].length],
                 !.update_dynamic_toll = IF capped THEN 0 ELSE @]

\* AdjustTollLink clamping as soon as the candidate reaches the cap (>= for >)
AdjustTollLink_ClampAtCap(l, a) ==
    IF ~Selected(l, a) THEN a
    ELSE LET capped == \E g \in DstVehGroups :
                           IncreasedValuetoll(l, a, g) >= max_dynamic_valuetoll
         IN  [a EXCEPT
                 !.valuetoll =
                     [g \in DstVehGroups |->
                         IF IncreasedValuetoll(l, a, g) >= max_dynamic_valuetoll
                         THEN max_dynamic_valuetoll * LinkInput[l].length
                         ELSE IncreasedValuetoll(l, a, g) * LinkInput[l].length],
                 !.update_dynamic_toll = IF capped THEN 0 ELSE @]

\* AdjustTollLink clamping without line 265: the flag of a clamped link stays set
AdjustTollLink_FlagKept(l, a) ==
    IF ~Selected(l, a) THEN a
    ELSE [a EXCEPT
             !.valuetoll =
                 [g \in DstVehGroups |->
                     IF IncreasedValuetoll(l, a, g) > max_dynamic_valuetoll
                     THEN max_dynamic_valuetoll * LinkInput[l].length
                     ELSE IncreasedValuetoll(l, a, g) * LinkInput[l].length]]

\* dynamic policy, later iterations, one link (lines 254-267)
AdjustTollLink(l, a) ==
    IF ~Selected(l, a) THEN a
    ELSE LET zipped == {dst_vehicle_group_names[i] :
                            i \in 1..Len(dst_vehicle_group_names)}
             capped == \E g \in zipped : IncreasedValuetoll(l, a, g) > max_dynamic_valuetoll
         IN  [a EXCEPT
                 !.valuetoll =
                     [g \in DstVehGroups |->
                         IF g \notin zipped THEN a.valuetoll[g]
                         ELSE IF IncreasedValuetoll(l, a, g) > max_dynamic_valuetoll
                              THEN max_dynamic_valuetoll * LinkInput[l].length
                              ELSE IncreasedValuetoll(l, a, g) * LinkInput[l].length],
                 !.update_dynamic_toll = IF capped THEN 0 ELSE @]

\* the path _set_tolls reads
TollPath == IF cfg.run_dynamic_toll THEN cfg.bridetoll_file_path ELSE cfg.file_path

\* whether _set_tolls is in the initial phase of the dynamic policy (line 223)
InitialPhase == iteration = 0 /\ dynamic_toll_iter = 0

\* the links after _set_tolls
set_tolls(links, time_period) ==
    LET toll_index == get_toll_indices(TollPath)
    IN  [l \in Links |->
            IF cfg.run_dynamic_toll
            THEN IF InitialPhase
                 THEN InitialTollLink(l, links[l], toll_index, time_period)
                 ELSE AdjustTollLink(l, links[l])
            ELSE StaticTollLink(l, links[l], toll_index, time_period)]

\* what _set_tolls adds to self.dynamic_toll_change (line 256)
TollChanges(links) ==
    IF cfg.run_dynamic_toll /\ ~InitialPhase
    THEN Cardinality({l \in Links : Selected(l, links[l])})
    ELSE 0

----------------------------------------------------------------------------
(* _set_vdf_attributes. *)

capacity_map(capclass) ==
    LET row == CHOOSE r \in {capclass_lookup[i] : i \in 1..Len(capclass_lookup)} :
                   r.capclass = capclass
    IN  row.capacity

critical_speed_map(capclass) ==
    LET row == CHOOSE r \in {capclass_lookup[i] : i \in 1..Len(capclass_lookup)} :
                   r.capclass = capclass
    IN  row.critical_speed

akcelik_vdfs == {3, 4, 5, 6, 7, 9, 10, 11, 12, 13, 14, 99}

Max(a, b) == IF a >= b THEN a ELSE b

Min(a, b) == IF a <= b THEN a ELSE b

(* @ja = 16 * (dist / critical_speed - dist / free_flow_speed) ** 2, held *)
(* as its numerator over (critical_speed * free_flow_speed) ** 2;         *)
(* num_lanes is held in tenths of a lane.                                 *)
set_vdf_attributes(links, time_period) ==
    [l \in Links |->
        LET in == LinkInput[l]
            vdf == IF in.ft = 99 THEN 7 ELSE in.ft
            critical_speed == critical_speed_map(in.capclass)
            diff == in.length * in.free_flow_speed - in.length * critical_speed
        IN  [links[l] EXCEPT
                !.capacity = capacity_map(in.capclass)
                                 * highway_capacity_factor[time_period] * in.lanes,
                !.volume_delay_func = vdf,
                !.num_lanes = Max(Min(99, in.lanes * 10), 10),
                !.ja = IF vdf \in akcelik_vdfs /\ in.free_flow_speed > 0
                       THEN 16 * diff * diff ELSE @]]

----------------------------------------------------------------------------
(* _set_link_modes and _apply_exclusions. *)

\* the modes of the classes and of the MAZ access
used_modes ==
    {Classes[i].mode_code : i \in 1..Len(Classes)} \cup {maz_to_maz.mode_code}

\* two classes share a mode code and differ in excluded_links (lines 376-387)
ModeCodeConflict ==
    \E i, j \in 1..Len(Classes) :
        /\ i < j
        /\ Classes[i].mode_code = Classes[j].mode_code
        /\ Classes[i].excluded_links # Classes[j].excluded_links

\* exclude_links_map of a link
exclude_links_map(l, a) ==
    LET useclass == LinkInput[l].useclass
    IN  [criteria \in {"is_sr", "is_sr2", "is_sr3", "is_auto_only",
                       "is_toll_da", "is_toll_sr2"} |->
            CASE criteria = "is_sr" -> useclass \in {2, 3}
              [] criteria = "is_sr2" -> useclass = 2
              [] criteria = "is_sr3" -> useclass = 3
              [] criteria = "is_auto_only" -> useclass \in {2, 3, 4}
              [] criteria = "is_toll_da" -> a.valuetoll["da"] > 0
              [] OTHER -> a.valuetoll["sr2"] > 0]

\* _apply_exclusions withholding the mode only if every criterion holds
apply_exclusions_AllCriteria(excluded_links_criteria, mode_code, modes_set, link_values) ==
    IF \A i \in 1..Len(excluded_links_criteria) : link_values[excluded_links_criteria[i]]
    THEN modes_set
    ELSE modes_set \cup {mode_code}

\* lines 429-440
apply_exclusions(excluded_links_criteria, mode_code, modes_set, link_values) ==
    IF \E i \in 1..Len(excluded_links_criteria) : link_values[excluded_links_criteria[i]]
    THEN modes_set
    ELSE modes_set \cup {mode_code}

\* the class loop of lines 420-426, classes 1..n applied in order
RECURSIVE ApplyClasses(_, _, _)
ApplyClasses(n, modes_set, link_values) ==
    IF n = 0 THEN modes_set
    ELSE apply_exclusions(Classes[n].excluded_links, Classes[n].mode_code,
                          ApplyClasses(n - 1, modes_set, link_values), link_values)

\* whether the MAZ-endpoint rule takes the link (lines 396-400)
MazHandled(l) ==
    /\ cfg.run_maz_assignment
    /\ LinkInput[l].i_maz_id + LinkInput[l].j_maz_id > 0

\* the modes of one link after _set_link_modes
LinkModes(l, a) ==
    LET reset == (a.modes \ used_modes)
                    \cup (IF LinkInput[l].drive_link # 0
                          THEN {generic_highway_mode_code} ELSE {})
        link_values == exclude_links_map(l, a)
    IN  IF MazHandled(l) THEN reset \cup {maz_to_maz.mode_code}
        ELSE IF LinkInput[l].drive_link = 0 THEN reset
        ELSE ApplyClasses(Len(Classes),
                          apply_exclusions(maz_to_maz.excluded_links, maz_to_maz.mode_code,
                                           reset, link_values),
                          link_values)

set_link_modes(links) ==
    [l \in Links |-> [links[l] EXCEPT !.modes = LinkModes(l, links[l])]]

----------------------------------------------------------------------------
(* _calc_link_skim_lengths, _calc_link_class_costs, _calc_total_flow. *)

calc_link_skim_lengths(links) ==
    [l \in Links |->
        [links[l] EXCEPT
            !.hov_length = IF 2 <= LinkInput[l].useclass /\ LinkInput[l].useclass <= 3
                           THEN LinkInput[l].length ELSE 0,
            !.toll_length = IF LinkInput[l].tollbooth >= valuetoll_start_tollbooth_code
                            THEN LinkInput[l].length ELSE 0]]

\* link[toll_attr] of a toll attribute named by its type and vehicle group
TollAttr(a, toll_attr) ==
    IF toll_attr[1] = "bridge" THEN a.bridgetoll[toll_attr[2]] ELSE a.valuetoll[toll_attr[2]]

RECURSIVE SumTolls(_, _)
SumTolls(a, toll_attrs) ==
    IF toll_attrs = {} THEN 0
    ELSE LET t == CHOOSE x \in toll_attrs : TRUE
         IN  TollAttr(a, t) + SumTolls(a, toll_attrs \ {t})

ClassOf(name) == CHOOSE c \in {Classes[i] : i \in 1..Len(Classes)} : c.name = name

calc_link_class_costs(links) ==
    [l \in Links |->
        [links[l] EXCEPT
            !.cost = [name \in ClassNames |->
                        LET assign_class == ClassOf(name)
                            toll_factor == IF assign_class.toll_factor = <<>> THEN 1
                                           ELSE assign_class.toll_factor[1]
                        IN  LinkInput[l].length * assign_class.operating_cost_per_mile
                                + SumTolls(links[l], assign_class.toll) * toll_factor]]]

RECURSIVE SumFlows(_, _)
SumFlows(a, n) ==
    IF n = 0 THEN 0 ELSE SumFlows(a, n - 1) + a.flow[Classes[n].name]

\* calc_total_flow without line 345: the class flows are added to the stored total
calc_total_flow_Accumulate(links) ==
    [l \in Links |-> [links[l] EXCEPT !.total_flow = @ + SumFlows(links[l], Len(Classes))]]

\* lines 343-347: the total starts at 0 and takes the flow of every class in turn
calc_total_flow(links) ==
    [l \in Links |-> [links[l] EXCEPT !.total_flow = SumFlows(links[l], Len(Classes))]]

----------------------------------------------------------------------------
(* The state machine. *)

\* the time period in hand
TimePeriod == time_period_names[time]

\* the schema guard asking only for the first overall iteration
FirstIteration_OverallOnly == iteration = 0

\* the schema guard of run() (line 84)
FirstIteration == iteration = 0 /\ dynamic_toll_iter = 0

\* validate_inputs: the columns the toll file must hold, and those it lacks
RequiredColumns == {<<"fac_index">>} \cup TollColumns

MissingColumns(toll_file) == RequiredColumns \ toll_file.header

Raise(kind) ==
    /\ pc' = "error"
    /\ error' = kind

Init ==
    /\ cfg \in Configs
    /\ iteration = 0
    /\ dynamic_toll_iter = 0
    /\ stop_dynamic_toll = FALSE
    /\ dynamic_toll_change = 0
    /\ scenario = [t \in Periods |-> StoredBefore]
    /\ network = StoredBefore
    /\ pc = "validate"
    /\ time = 1
    /\ trace = <<>>
    /\ created = [t \in Periods |-> 0]
    /\ published = [t \in Periods |-> 0]
    /\ calls = 0
    /\ error = ""

\* validate_inputs (lines 102-128), called before the first run()
ValidateInputs ==
    /\ pc = "validate"
    /\ IF ~PathExists(cfg.file_path) THEN Raise("FileNotFoundError")
       ELSE IF MissingColumns(FileAt(cfg.file_path)) # {} THEN Raise("FileFormatError")
       ELSE pc' = "idle" /\ error' = error
    /\ UNCHANGED <<cfg, iteration, dynamic_toll_iter, stop_dynamic_toll,
                   dynamic_toll_change, scenario, network, time, trace, created,
                   published, calls>>

\* the controller moves to the next overall iteration
AdvanceIteration ==
    /\ pc = "idle"
    /\ calls > 0
    /\ iteration < MaxIteration
    /\ iteration' = iteration + 1
    /\ UNCHANGED <<cfg, dynamic_toll_iter, stop_dynamic_toll, dynamic_toll_change,
                   scenario, network, pc, time, trace, created, published, calls, error>>

\* run() is entered (lines 73-77)
RunStart ==
    /\ pc = "idle"
    /\ calls < MaxCalls
    /\ calls' = calls + 1
    /\ dynamic_toll_change' = 0
    /\ time' = 1
    /\ trace' = <<>>
    /\ published' = [t \in Periods |-> 0]
    /\ pc' = "scenario"
    /\ UNCHANGED <<cfg, iteration, dynamic_toll_iter, stop_dynamic_toll, scenario,
                   network, created, error>>

\* lines 84-85: the schema of the period's scenario, in the first iteration
CreateClassAttributes ==
    /\ pc = "scenario"
    /\ FirstIteration
    /\ scenario' = [scenario EXCEPT ![TimePeriod] = create_class_attributes(@)]
    /\ created' = [created EXCEPT ![TimePeriod] = @ + 1]
    /\ pc' = "get_network"
    /\ UNCHANGED <<cfg, iteration, dynamic_toll_iter, stop_dynamic_toll,
                   dynamic_toll_change, network, time, trace, published, calls, error>>

\* line 86: network = scenario.get_network()
GetNetwork ==
    /\ IF pc = "scenario" THEN ~FirstIteration ELSE pc = "get_network"
    /\ network' = scenario[TimePeriod]
    /\ trace' = <<>>
    /\ pc' = "set_tolls"
    /\ UNCHANGED <<cfg, iteration, dynamic_toll_iter, stop_dynamic_toll,
                   dynamic_toll_change, scenario, time, created, published, calls, error>>

\* SetTolls followed by _set_link_modes, the call of _set_vdf_attributes left out
SetTolls_ThenModes ==
    /\ pc = "set_tolls"
    /\ IF ~PathExists(TollPath)
       THEN /\ Raise("FileNotFoundError")
            /\ UNCHANGED <<network, dynamic_toll_change, trace>>
       ELSE /\ network' = set_tolls(network, TimePeriod)
            /\ dynamic_toll_change' = dynamic_toll_change + TollChanges(network)
            /\ trace' = Append(trace, "set_tolls")
            /\ pc' = "set_link_modes"
            /\ error' = error
    /\ UNCHANGED <<cfg, iteration, dynamic_toll_iter, stop_dynamic_toll, scenario,
                   time, created, published, calls>>

\* line 87: _set_tolls, which opens the toll file it reads (line 305)
SetTolls ==
    /\ pc = "set_tolls"
    /\ IF ~PathExists(TollPath)
       THEN /\ Raise("FileNotFoundError")
            /\ UNCHANGED <<network, dynamic_toll_change, trace>>
       ELSE /\ network' = set_tolls(network, TimePeriod)
            /\ dynamic_toll_change' = dynamic_toll_change + TollChanges(network)
            /\ trace' = Append(trace, "set_tolls")
            /\ pc' = "set_vdf_attributes"
            /\ error' = error
    /\ UNCHANGED <<cfg, iteration, dynamic_toll_iter, stop_dynamic_toll, scenario,
                   time, created, published, calls>>

\* line 88
SetVdfAttributes ==
    /\ pc = "set_vdf_attributes"
    /\ network' = set_vdf_attributes(network, TimePeriod)
    /\ trace' = Append(trace, "set_vdf_attributes")
    /\ pc' = "set_link_modes"
    /\ UNCHANGED <<cfg, iteration, dynamic_toll_iter, stop_dynamic_toll,
                   dynamic_toll_change, scenario, time, created, published, calls, error>>

\* line 89: the modes are reset (lines 358-361) before the classes are read
SetLinkModes ==
    /\ pc = "set_link_modes"
    /\ IF ModeCodeConflict
       THEN /\ Raise("Exception")
            /\ network' = [l \in Links |->
                              [network[l] EXCEPT
                                  !.modes = (@ \ used_modes)
                                      \cup (IF LinkInput[l].drive_link # 0
                                            THEN {generic_highway_mode_code} ELSE {})]]
            /\ trace' = trace
       ELSE /\ network' = set_link_modes(network)
            /\ trace' = Append(trace, "set_link_modes")
            /\ pc' = "calc_link_skim_lengths"
            /\ error' = error
    /\ UNCHANGED <<cfg, iteration, dynamic_toll_iter, stop_dynamic_toll,
                   dynamic_toll_change, scenario, time, created, published, calls>>

\* line 90
CalcLinkSkimLengths ==
    /\ pc = "calc_link_skim_lengths"
    /\ network' = calc_link_skim_lengths(network)
    /\ trace' = Append(trace, "calc_link_skim_lengths")
    /\ pc' = "calc_link_class_costs"
    /\ UNCHANGED <<cfg, iteration, dynamic_toll_iter, stop_dynamic_toll,
                   dynamic_toll_change, scenario, time, created, published, calls, error>>

\* CalcLinkClassCosts followed at once by the commit, before _calc_total_flow
CalcLinkClassCosts_ThenPublish ==
    /\ pc = "calc_link_class_costs"
    /\ network' = calc_link_class_costs(network)
    /\ trace' = Append(trace, "calc_link_class_costs")
    /\ pc' = "publish_network"
    /\ UNCHANGED <<cfg, iteration, dynamic_toll_iter, stop_dynamic_toll,
                   dynamic_toll_change, scenario, time, created, published, calls, error>>

\* line 91
CalcLinkClassCosts ==
    /\ pc = "calc_link_class_costs"
    /\ network' = calc_link_class_costs(network)
    /\ trace' = Append(trace, "calc_link_class_costs")
    /\ pc' = "calc_total_flow"
    /\ UNCHANGED <<cfg, iteration, dynamic_toll_iter, stop_dynamic_toll,
                   dynamic_toll_change, scenario, time, created, published, calls, error>>

\* line 92
CalcTotalFlow ==
    /\ pc = "calc_total_flow"
    /\ network' = calc_total_flow(network)
    /\ trace' = Append(trace, "calc_total_flow")
    /\ pc' = "publish_network"
    /\ UNCHANGED <<cfg, iteration, dynamic_toll_iter, stop_dynamic_toll,
                   dynamic_toll_change, scenario, time, created, published, calls, error>>

\* line 93, and the loop's step to the next period (line 77)
PublishNetwork ==
    /\ pc = "publish_network"
    /\ scenario' = [scenario EXCEPT ![TimePeriod] = network]
    /\ published' = [published EXCEPT ![TimePeriod] = @ + 1]
    /\ IF time < Len(time_period_names)
       THEN time' = time + 1 /\ pc' = "scenario"
       ELSE time' = time /\ pc' = "dynamic_toll"
    /\ trace' = Append(trace, "publish_network")
    /\ UNCHANGED <<cfg, iteration, dynamic_toll_iter, stop_dynamic_toll,
                   dynamic_toll_change, network, created, calls, error>>

\* DynamicTollUpdate with the convergence test not asking for a positive counter
DynamicTollUpdate_NoIterTest ==
    /\ pc = "dynamic_toll"
    /\ IF cfg.run_dynamic_toll
       THEN /\ stop_dynamic_toll' =
                  IF dynamic_toll_change = 0 THEN TRUE ELSE stop_dynamic_toll
            /\ dynamic_toll_iter' =
                  IF ~stop_dynamic_toll' THEN dynamic_toll_iter + 1 ELSE dynamic_toll_iter
       ELSE UNCHANGED <<stop_dynamic_toll, dynamic_toll_iter>>
    /\ pc' = "assign"
    /\ UNCHANGED <<cfg, iteration, dynamic_toll_change, scenario, network, time, trace,
                   created, published, calls, error>>

\* DynamicTollUpdate advancing the counter whatever the stop flag says
DynamicTollUpdate_AlwaysAdvance ==
    /\ pc = "dynamic_toll"
    /\ IF cfg.run_dynamic_toll
       THEN /\ stop_dynamic_toll' =
                  IF dynamic_toll_iter > 0 /\ dynamic_toll_change = 0
                  THEN TRUE ELSE stop_dynamic_toll
            /\ dynamic_toll_iter' = dynamic_toll_iter + 1
       ELSE UNCHANGED <<stop_dynamic_toll, dynamic_toll_iter>>
    /\ pc' = "assign"
    /\ UNCHANGED <<cfg, iteration, dynamic_toll_change, scenario, network, time, trace,
                   created, published, calls, error>>

\* lines 95-100: the run-level dynamic-toll state, after the loop
DynamicTollUpdate ==
    /\ pc = "dynamic_toll"
    /\ IF cfg.run_dynamic_toll
       THEN /\ stop_dynamic_toll' =
                  IF dynamic_toll_iter > 0 /\ dynamic_toll_change = 0
                  THEN TRUE ELSE stop_dynamic_toll
            /\ dynamic_toll_iter' =
                  IF ~stop_dynamic_toll' THEN dynamic_toll_iter + 1 ELSE dynamic_toll_iter
       ELSE UNCHANGED <<stop_dynamic_toll, dynamic_toll_iter>>
    /\ pc' = "assign"
    /\ UNCHANGED <<cfg, iteration, dynamic_toll_change, scenario, network, time, trace,
                   created, published, calls, error>>

(* The highway assignment that follows run(): the solver writes @vc and  *)
(* the per-class flows of every period's scenario.  The other tolled     *)
(* links of a period are as congested as its most congested value-toll   *)
(* link; the untolled links are not congested.                           *)
VcValues == {10, 14, 25}

FlowPatterns ==
    {[c \in ClassNames |-> 1],
     [c \in ClassNames |-> IF c = "da" THEN 2 ELSE IF c = "sr2" THEN 0 ELSE 5]}

ValueLinks == {l \in Links : LinkInput[l].tollbooth >= valuetoll_start_tollbooth_code}

Assign ==
    /\ pc = "assign"
    /\ \E vcs \in [Periods \X ValueLinks -> VcValues], flows \in FlowPatterns :
          scenario' =
              [t \in Periods |->
                  [l \in Links |->
                      [scenario[t][l] EXCEPT
                          !.vc = IF l \in ValueLinks THEN vcs[<<t, l>>]
                                 ELSE IF LinkInput[l].tollbooth # 0
                                 THEN CHOOSE v \in VcValues :
                                          /\ \E k \in ValueLinks : vcs[<<t, k>>] = v
                                          /\ \A k \in ValueLinks : vcs[<<t, k>>] <= v
                                 ELSE 8,
                          !.flow = IF LinkInput[l].drive_link # 0 THEN flows
                                   ELSE NoClassValues]]]
    /\ pc' = "idle"
    /\ UNCHANGED <<cfg, iteration, dynamic_toll_iter, stop_dynamic_toll,
                   dynamic_toll_change, network, time, trace, created, published,
                   calls, error>>

Next ==
    \/ ValidateInputs
    \/ AdvanceIteration
    \/ RunStart
    \/ CreateClassAttributes
    \/ GetNetwork
    \/ SetTolls
    \/ SetVdfAttributes
    \/ SetLinkModes
    \/ CalcLinkSkimLengths
    \/ CalcLinkClassCosts
    \/ CalcTotalFlow
    \/ PublishNetwork
    \/ DynamicTollUpdate
    \/ Assign

Spec == Init /\ [][Next]_vars

(* run() invoked again and again under the dynamic toll policy: the same  *)
(* steps with no bound on the number of calls (calls counts them up to    *)
(* MaxCalls and stays there).  Every step of run() that can be taken is   *)
(* taken, and a call that can be made is made.  The settings the tolls do *)
(* not read (MAZ assignment, MSA) are held at one value.                  *)
InitDynamic ==
    /\ Init
    /\ cfg.run_dynamic_toll
    /\ ~cfg.run_maz_assignment
    /\ ~cfg.apply_msa

\* run() is entered (lines 73-77), however many calls came before
RunRepeatedly ==
    /\ pc = "idle"
    /\ calls' = Min(calls + 1, MaxCalls)
    /\ dynamic_toll_change' = 0
    /\ time' = 1
    /\ trace' = <<>>
    /\ published' = [t \in Periods |-> 0]
    /\ pc' = "scenario"
    /\ UNCHANGED <<cfg, iteration, dynamic_toll_iter, stop_dynamic_toll, scenario,
                   network, created, error>>

NextRepeated ==
    \/ ValidateInputs
    \/ AdvanceIteration
    \/ RunRepeatedly
    \/ CreateClassAttributes
    \/ GetNetwork
    \/ SetTolls
    \/ SetVdfAttributes
    \/ SetLinkModes
    \/ CalcLinkSkimLengths
    \/ CalcLinkClassCosts
    \/ CalcTotalFlow
    \/ PublishNetwork
    \/ DynamicTollUpdate
    \/ Assign

FairSpec == InitDynamic /\ [][NextRepeated]_vars /\ WF_vars(NextRepeated)

----------------------------------------------------------------------------
(* Properties. *)

\* the per-mile value toll of a vehicle group on a link, in cents
PerMile(l, a, g) == a.valuetoll[g] \div LinkInput[l].length

\* a link an adjustment-phase call has clamped to max_dynamic_valuetoll
Capped(l, a) ==
    /\ cfg.run_dynamic_toll
    /\ dynamic_toll_iter > 0
    /\ a.update_dynamic_toll = 0
    /\ \A g \in DstVehGroups : a.valuetoll[g] = max_dynamic_valuetoll * LinkInput[l].length

\* a step of _set_tolls in the adjustment phase of the dynamic policy
AdjustmentStep ==
    /\ cfg.run_dynamic_toll
    /\ pc = "set_tolls"
    /\ pc' = "set_vdf_attributes"
    /\ ~InitialPhase

(* C1: under the dynamic policy the per-mile value toll of every value-toll *)
(* link and vehicle group never decreases in an adjustment-phase call of    *)
(* _set_tolls, nor in the stored graph once the adjustment phase has begun; *)
(* a link that has been clamped to max_dynamic_valuetoll keeps its value    *)
(* toll and has @update_dynamic_toll = 0 in every later step.               *)
C1_Monotone ==
    [][ /\ AdjustmentStep =>
            \A l \in ValueLinks, g \in DstVehGroups :
                /\ PerMile(l, network'[l], g) >= PerMile(l, network[l], g)
                /\ Capped(l, network[l]) =>
                      /\ network'[l].valuetoll = network[l].valuetoll
                      /\ network'[l].update_dynamic_toll = 0
        /\ (cfg.run_dynamic_toll /\ dynamic_toll_iter > 0) =>
            \A t \in Periods, l \in ValueLinks, g \in DstVehGroups :
                /\ PerMile(l, scenario'[t][l], g) >= PerMile(l, scenario[t][l], g)
                /\ Capped(l, scenario[t][l]) =>
                      /\ scenario'[t][l].valuetoll = scenario[t][l].valuetoll
                      /\ scenario'[t][l].update_dynamic_toll = 0 ]_vars

\* an adjustment-phase call has just passed over a congested link capped earlier
C1_Witness ==
    /\ cfg.run_dynamic_toll
    /\ pc = "set_vdf_attributes"
    /\ ~InitialPhase
    /\ \E l \in ValueLinks :
          /\ Capped(l, scenario[TimePeriod][l])
          /\ scenario[TimePeriod][l].vc > 10
          /\ Capped(l, network[l])

\* no link of any time period has @vc > 1.0
NoCongestion == \A t \in Periods, l \in Links : scenario[t][l].vc <= 10

(* C2: under the dynamic policy, when run() reaches its closing block after *)
(* a cycle in which no link had @vc > 1.0, dynamic_toll_change is 0, and    *)
(* the block sets _stop_dynamic_toll if _dynamic_toll_iter is already > 0;  *)
(* a cycle with _dynamic_toll_iter = 0 leaves the stop flag as it was.      *)
C2_Convergence ==
    [][ (cfg.run_dynamic_toll /\ pc = "dynamic_toll" /\ pc' = "assign") =>
            /\ NoCongestion =>
                  /\ dynamic_toll_change = 0
                  /\ dynamic_toll_iter > 0 => stop_dynamic_toll'
            /\ dynamic_toll_iter = 0 => stop_dynamic_toll' = stop_dynamic_toll ]_vars

\* the first uncongested cycle with a positive counter has just set the stop flag
C2_Witness ==
    /\ cfg.run_dynamic_toll
    /\ pc = "assign"
    /\ NoCongestion
    /\ dynamic_toll_change = 0
    /\ dynamic_toll_iter = 1
    /\ calls = 2
    /\ stop_dynamic_toll

(* C3: _dynamic_toll_iter and _stop_dynamic_toll change only in the closing *)
(* block of run(), after every time period of the call has been published   *)
(* once; there the counter grows by 1 if the stop flag is unset after the   *)
(* convergence test and by 0 if it is set; a set stop flag stays set and    *)
(* freezes the counter; with dynamic tolling disabled neither ever changes. *)
C3_RunLevelState ==
    [][ /\ (dynamic_toll_iter' # dynamic_toll_iter
                \/ stop_dynamic_toll' # stop_dynamic_toll) =>
            /\ cfg.run_dynamic_toll
            /\ pc = "dynamic_toll"
            /\ \A t \in Periods : published[t] = 1
        /\ (pc = "dynamic_toll" /\ pc' = "assign" /\ cfg.run_dynamic_toll) =>
            dynamic_toll_iter' =
                dynamic_toll_iter + (IF stop_dynamic_toll' THEN 0 ELSE 1)
        /\ stop_dynamic_toll =>
            /\ stop_dynamic_toll'
            /\ dynamic_toll_iter' = dynamic_toll_iter ]_vars

\* a call has ended with the stop flag already set before it: the counter stood still
C3_Witness ==
    /\ cfg.run_dynamic_toll
    /\ pc = "assign"
    /\ stop_dynamic_toll
    /\ calls >= dynamic_toll_iter + 2

(* C4 as claimed: over any sequence of run() calls, whether dynamic tolling *)
(* is enabled or not, _create_class_attributes runs for each period's       *)
(* scenario in the first call and in no later call.                         *)
C4_OncePerRun ==
    \A t \in Periods :
        /\ created[t] <= 1
        /\ published[t] = 1 => created[t] = 1

(* C4, amended: _create_class_attributes runs in exactly the calls entered  *)
(* with overall iteration 0 and _dynamic_toll_iter 0.  That is the first    *)
(* call, always; with dynamic tolling enabled no later call; with dynamic   *)
(* tolling disabled every later call made while the overall iteration is    *)
(* still 0, and none once it has advanced.                                  *)
C4_OncePerFirstIteration ==
    /\ [](\A t \in Periods :
            /\ published[t] = 1 => created[t] >= 1
            /\ cfg.run_dynamic_toll => created[t] <= 1
            /\ created[t] <= calls)
    /\ [][ /\ \A t \in Periods :
                created'[t] # created[t] =>
                    /\ iteration = 0
                    /\ cfg.run_dynamic_toll => calls = 1
           /\ (pc = "scenario" /\ iteration = 0 /\ ~cfg.run_dynamic_toll) =>
                created'[TimePeriod] = created[TimePeriod] + 1
           /\ (pc = "scenario" /\ (iteration > 0 \/ (calls > 1 /\ cfg.run_dynamic_toll))) =>
                created' = created ]_vars

\* a later call of a dynamic-toll run at overall iteration 0 has skipped the schema
C4_Witness ==
    /\ cfg.run_dynamic_toll
    /\ iteration = 0
    /\ calls = 2
    /\ pc = "set_tolls"
    /\ created[TimePeriod] = 1
    /\ network = scenario[TimePeriod]
    /\ \E l \in ValueLinks : network[l].update_dynamic_toll = 1

(* C5 as claimed: in every state reached after an adjustment-phase call, a  *)
(* value-toll link whose per-mile value toll equals max_dynamic_valuetoll   *)
(* has @update_dynamic_toll cleared.                                        *)
C5_FlagClearedAtCap ==
    (cfg.run_dynamic_toll /\ pc \in {"assign", "idle"} /\ calls >= 2) =>
        \A t \in Periods, l \in ValueLinks :
            (\A g \in DstVehGroups : PerMile(l, scenario[t][l], g) = max_dynamic_valuetoll)
                => scenario[t][l].update_dynamic_toll = 0

(* C5, amended: an adjustment-phase call clears @update_dynamic_toll of a   *)
(* selected link exactly when its candidate per-mile toll exceeds           *)
(* max_dynamic_valuetoll (the toll is then clamped to the cap); a toll that *)
(* reaches the cap exactly keeps the flag set; a cleared flag is never set  *)
(* again, and a link with a cleared flag is at the cap.                     *)
C5_FlagClearedWhenClamped ==
    /\ [][ AdjustmentStep =>
              \A l \in ValueLinks :
                  /\ Selected(l, network[l]) =>
                        ((\E g \in DstVehGroups :
                              IncreasedValuetoll(l, network[l], g) > max_dynamic_valuetoll)
                          <=> network'[l].update_dynamic_toll = 0)
                  /\ network[l].update_dynamic_toll = 0 =>
                        network'[l].update_dynamic_toll = 0 ]_vars
    /\ [][ (cfg.run_dynamic_toll /\ dynamic_toll_iter > 0) =>
              \A t \in Periods, l \in ValueLinks :
                  scenario[t][l].update_dynamic_toll = 0 =>
                      scenario'[t][l].update_dynamic_toll = 0 ]_vars
    /\ [](\A t \in Periods, l \in ValueLinks :
              (cfg.run_dynamic_toll /\ dynamic_toll_iter > 0
                   /\ scenario[t][l].update_dynamic_toll = 0)
                  => Capped(l, scenario[t][l]))

\* an adjustment-phase call has just clamped a link and cleared its flag
C5_Witness ==
    /\ cfg.run_dynamic_toll
    /\ pc = "set_vdf_attributes"
    /\ ~InitialPhase
    /\ \E l \in ValueLinks :
          /\ scenario[TimePeriod][l].update_dynamic_toll = 1
          /\ network[l].update_dynamic_toll = 0
          /\ \A g \in DstVehGroups : PerMile(l, network[l], g) = max_dynamic_valuetoll

\* the links with a nonzero @tollbooth, and whether a toll field of a link is nonzero
TolledLinks == {l \in Links : LinkInput[l].tollbooth # 0}

HasBridgeToll(a) == \E g \in DstVehGroups : a.bridgetoll[g] # 0

HasValueToll(a) == \E g \in DstVehGroups : a.valuetoll[g] # 0

\* _set_tolls has run on the snapshot in hand
TollsSet ==
    /\ Len(trace) >= 1
    /\ trace[1] = "set_tolls"
    /\ trace[Len(trace)] # "publish_network"

(* C6 as claimed: after _set_tolls every tolled link has exactly one of its *)
(* bridge-toll and value-toll fields nonzero: the bridge toll if @tollbooth *)
(* is below valuetoll_start_tollbooth_code, the value toll otherwise.       *)
C6_ExactlyOneToll ==
    TollsSet =>
        \A l \in TolledLinks :
            IF LinkInput[l].tollbooth < valuetoll_start_tollbooth_code
            THEN HasBridgeToll(network[l]) /\ ~HasValueToll(network[l])
            ELSE HasValueToll(network[l]) /\ ~HasBridgeToll(network[l])

(* C6, amended: after _set_tolls no tolled link has both a bridge toll and  *)
(* a value toll: the value tolls of a link with @tollbooth below            *)
(* valuetoll_start_tollbooth_code are zero and the bridge tolls of a link   *)
(* at or above it are zero.  Both are zero after a lookup miss, for a zero  *)
(* rate and for a value-toll link in the initial phase of the dynamic       *)
(* policy; under the static policy a lookup hit writes the file's rate.     *)
C6_AtMostOneToll ==
    TollsSet =>
        \A l \in TolledLinks :
            /\ LinkInput[l].tollbooth < valuetoll_start_tollbooth_code
                  => ~HasValueToll(network[l])
            /\ LinkInput[l].tollbooth >= valuetoll_start_tollbooth_code
                  => ~HasBridgeToll(network[l])
            /\ (~cfg.run_dynamic_toll /\ TollIndex(l) \in DOMAIN FullTollFile.rows) =>
                  \A i \in 1..Len(dst_vehicle_group_names) :
                      LET rate == FullTollFile.rows[TollIndex(l)]
                                      [<<TimePeriod, src_vehicle_group_names[i]>>]
                          g == dst_vehicle_group_names[i]
                      IN  IF LinkInput[l].tollbooth < valuetoll_start_tollbooth_code
                          THEN network[l].bridgetoll[g] = rate
                          ELSE network[l].valuetoll[g] = rate * LinkInput[l].length

\* the static policy has set a bridge toll on one link and a value toll on another
C6_Witness ==
    /\ ~cfg.run_dynamic_toll
    /\ pc = "set_vdf_attributes"
    /\ TollsSet
    /\ \E l \in TolledLinks : HasBridgeToll(network[l]) /\ ~HasValueToll(network[l])
    /\ \E l \in TolledLinks : HasValueToll(network[l]) /\ ~HasBridgeToll(network[l])

\* the order in which run() works on a period's snapshot (lines 87-93)
RunOrder ==
    <<"set_tolls", "set_vdf_attributes", "set_link_modes", "calc_link_skim_lengths",
      "calc_link_class_costs", "calc_total_flow", "publish_network">>

\* the place of a step in the trace, 0 if it has not run
Place(step) ==
    IF \E i \in 1..Len(trace) : trace[i] = step
    THEN CHOOSE i \in 1..Len(trace) : trace[i] = step
    ELSE 0

(* C7 as claimed: when a period's snapshot is committed the components have *)
(* run in the order VDF/capacity, tolls, modes, skim lengths and class      *)
(* costs.                                                                   *)
C7_VdfBeforeTolls ==
    pc = "publish_network" =>
        SubSeq(trace, 1, 5) =
            <<"set_vdf_attributes", "set_tolls", "set_link_modes",
              "calc_link_skim_lengths", "calc_link_class_costs">>

(* C7, amended: within each time period, after the schema initialization of *)
(* the first iteration, run() executes toll assignment, then VDF/capacity,  *)
(* then mode assignment, then skim lengths, then class costs, then total    *)
(* flow, then the commit: tolls are written before the modes and the class  *)
(* costs that read them, and the VDF attributes before the class costs.     *)
C7_TollsBeforeVdf ==
    /\ Len(trace) <= Len(RunOrder)
    /\ trace = SubSeq(RunOrder, 1, Len(trace))
    /\ pc = "publish_network" => Len(trace) = Len(RunOrder) - 1
    /\ pc \in {"dynamic_toll", "assign", "idle"} /\ calls > 0 => trace = RunOrder
    /\ Place("set_link_modes") > 0 =>
          /\ Place("set_tolls") > 0
          /\ Place("set_tolls") < Place("set_link_modes")
    /\ Place("calc_link_class_costs") > 0 =>
          /\ Place("set_tolls") > 0
          /\ Place("set_tolls") < Place("calc_link_class_costs")
          /\ Place("set_vdf_attributes") > 0
          /\ Place("set_vdf_attributes") < Place("calc_link_class_costs")
    /\ (TollsSet /\ calls = 1) => created[TimePeriod] = 1

\* a snapshot has been through every component and its commit
C7_Witness ==
    /\ pc = "dynamic_toll"
    /\ trace = RunOrder
    /\ \A t \in Periods : published[t] = 1

(* C8: when the toll file the active policy reads does not exist, the run   *)
(* fails with a FileNotFoundError before any stored graph has been touched: *)
(* no scenario has had an attribute created, overwritten or changed.        *)
C8_NoMutationBeforeFileError ==
    error = "FileNotFoundError" =>
        /\ scenario = [t \in Periods |-> StoredBefore]
        /\ \A t \in Periods : created[t] = 0

\* the mode codes _set_link_modes grants a link: those none of whose criteria hold
Granted(l, a) ==
    LET link_values == exclude_links_map(l, a)
        allowed(criteria) == \A k \in 1..Len(criteria) : ~link_values[criteria[k]]
    IN  {Classes[i].mode_code : i \in {j \in 1..Len(Classes) :
                                          allowed(Classes[j].excluded_links)}}
            \cup (IF allowed(maz_to_maz.excluded_links)
                  THEN {maz_to_maz.mode_code} ELSE {})

\* _set_link_modes has run on the snapshot in hand
ModesSet ==
    /\ Place("set_link_modes") > 0
    /\ trace[Len(trace)] # "publish_network"

(* C9 as claimed: after _set_link_modes every link the MAZ-endpoint rule    *)
(* does not handle carries exactly the mode codes of the classes (and of    *)
(* the MAZ access) none of whose exclusion criteria hold for it.            *)
C9_ModesOfEveryLink ==
    ModesSet =>
        \A l \in Links :
            ~MazHandled(l) => network[l].modes \cap used_modes = Granted(l, network[l])

(* C9, amended: after _set_link_modes every drivable link (@drive_link      *)
(* nonzero) the MAZ-endpoint rule does not handle carries exactly the mode  *)
(* codes of the classes (and of the MAZ access) none of whose exclusion     *)
(* criteria hold for it; a link that is not drivable carries none of them.  *)
C9_ModesOfDrivableLinks ==
    ModesSet =>
        \A l \in Links :
            ~MazHandled(l) =>
                network[l].modes \cap used_modes =
                    IF LinkInput[l].drive_link # 0 THEN Granted(l, network[l]) ELSE {}

\* a drivable link has been granted some class modes and refused others
C9_Witness ==
    /\ pc = "calc_link_skim_lengths"
    /\ ModesSet
    /\ \E l \in Links :
          /\ ~MazHandled(l)
          /\ LinkInput[l].drive_link # 0
          /\ network[l].modes \cap used_modes = Granted(l, network[l])
          /\ Granted(l, network[l]) # {}
          /\ Granted(l, network[l]) # used_modes
          /\ \E g \in DstVehGroups : network[l].valuetoll[g] > 0

\* a graph every component after the tolls leaves as it is
Prepared(links, time_period) ==
    /\ set_vdf_attributes(links, time_period) = links
    /\ set_link_modes(links) = links
    /\ calc_link_skim_lengths(links) = links
    /\ calc_link_class_costs(links) = links
    /\ calc_total_flow(links) = links

(* C10: every time period's snapshot is published exactly once per run()   *)
(* call, and only after tolls, VDF, modes, skim lengths, class costs and    *)
(* total flow have finished on it, so that the stored graphs the solver     *)
(* reads after the call are fully prepared; when a component raises a fatal *)
(* error the snapshot in hand is not published.                             *)
C10_PublishOncePrepared ==
    /\ [](/\ \A t \in Periods : published[t] <= 1
          /\ pc \in {"dynamic_toll", "assign"} =>
                \A t \in Periods : published[t] = 1
          /\ pc = "assign" => \A t \in Periods : Prepared(scenario[t], t)
          /\ (pc = "error" /\ calls > 0) =>
                /\ published[TimePeriod] = 0
                /\ \A i \in 1..Len(trace) : trace[i] # "publish_network")
    /\ [][ \A t \in Periods :
              published'[t] > published[t] =>
                  /\ t = TimePeriod
                  /\ trace = SubSeq(RunOrder, 1, Len(RunOrder) - 1)
                  /\ scenario'[t] = network ]_vars

\* _set_link_modes has failed on a snapshot the tolls and VDF had changed: no commit
C10_Witness ==
    /\ pc = "error"
    /\ error = "Exception"
    /\ trace = <<"set_tolls", "set_vdf_attributes">>
    /\ network # scenario[TimePeriod]
    /\ published[TimePeriod] = 0

\* the sum of the per-class flows of a link over a set of class names
RECURSIVE FlowOfClasses(_, _)
FlowOfClasses(a, names) ==
    IF names = {} THEN 0
    ELSE LET c == CHOOSE x \in names : TRUE
         IN  a.flow[c] + FlowOfClasses(a, names \ {c})

(* C11: when a pass of run() has completed, @total_flow of every link of    *)
(* every time period equals the sum of the link's per-class flows as the    *)
(* stored graph holds them in that pass (the solver's values, or 0 after    *)
(* the schema initialization); _calc_total_flow writes that sum whatever    *)
(* total the link held before, and no later component changes the total or  *)
(* the flows before the commit.                                             *)
C11_Conservation ==
    /\ [](pc \in {"dynamic_toll", "assign"} =>
            \A t \in Periods, l \in Links :
                scenario[t][l].total_flow = FlowOfClasses(scenario[t][l], ClassNames))
    /\ [][ /\ (pc = "calc_total_flow" /\ pc' = "publish_network") =>
                \A l \in Links :
                    /\ network'[l].total_flow = FlowOfClasses(network[l], ClassNames)
                    /\ network'[l].flow = network[l].flow
           /\ (pc \in {"get_network", "set_tolls", "set_vdf_attributes", "set_link_modes",
                       "calc_link_skim_lengths", "calc_link_class_costs"}) =>
                \A l \in Links : network'[l].flow = scenario[TimePeriod][l].flow ]_vars

\* a later pass has replaced a nonzero total by the different sum of the new flows
C11_Witness ==
    /\ pc = "publish_network"
    /\ calls >= 2
    /\ \E l \in Links :
          /\ scenario[TimePeriod][l].total_flow > 0
          /\ network[l].total_flow > 0
          /\ network[l].total_flow # scenario[TimePeriod][l].total_flow
          /\ network[l].total_flow = FlowOfClasses(network[l], ClassNames)
          /\ network[l].flow = scenario[TimePeriod][l].flow

(* The adjustments a value-toll link can still take: 0 once its flag is   *)
(* cleared, else 1 plus the increments that fit under the cap.            *)
Remaining(l, a) ==
    IF a.update_dynamic_toll = 0 THEN 0
    ELSE 1 + Cardinality({n \in 1..(max_dynamic_valuetoll \div VALUETOLL_INCREMENT) :
                             \A g \in DstVehGroups :
                                 PerMile(l, a, g) + VALUETOLL_INCREMENT * n
                                     <= max_dynamic_valuetoll})

\* an adjustment-phase call of _set_tolls selects link l of period t
SelectedStep(t, l) ==
    /\ AdjustmentStep
    /\ TimePeriod = t
    /\ Selected(l, network[l])

(* C12: under the dynamic policy, with run() invoked again and again and   *)
(* any @vc the solver writes between calls: once a period's schema is      *)
(* initialized its value tolls lie between 0 and max_dynamic_valuetoll *   *)
(* length; an adjustment-phase call never lowers a value toll and every    *)
(* selection of a link uses up one of its remaining adjustments, which     *)
(* never grow again, so each link is selected only finitely often; the     *)
(* stop flag is set only by a cycle with change counter 0, and unless the  *)
(* run fails such a cycle eventually occurs and the stop flag stays set.   *)
C12_Converges ==
    /\ [](\A t \in Periods, l \in ValueLinks, g \in DstVehGroups :
            /\ created[t] > 0 =>
                  /\ scenario[t][l].valuetoll[g] >= 0
                  /\ scenario[t][l].valuetoll[g]
                         <= max_dynamic_valuetoll * LinkInput[l].length
            /\ TollsSet =>
                  /\ network[l].valuetoll[g] >= 0
                  /\ network[l].valuetoll[g]
                         <= max_dynamic_valuetoll * LinkInput[l].length)
    /\ [][ /\ AdjustmentStep =>
                \A l \in ValueLinks :
                    /\ \A g \in DstVehGroups :
                           network'[l].valuetoll[g] >= network[l].valuetoll[g]
                    /\ Selected(l, network[l]) =>
                           Remaining(l, network'[l]) < Remaining(l, network[l])
                    /\ ~Selected(l, network[l]) => network'[l] = network[l]
           /\ dynamic_toll_iter > 0 =>
                \A t \in Periods, l \in ValueLinks :
                    Remaining(l, scenario'[t][l]) <= Remaining(l, scenario[t][l])
           /\ (stop_dynamic_toll' /\ ~stop_dynamic_toll) =>
                /\ pc = "dynamic_toll"
                /\ dynamic_toll_change = 0 ]_vars
    /\ \A t \in Periods, l \in ValueLinks : <>[][~SelectedStep(t, l)]_vars
    /\ <>[](stop_dynamic_toll \/ pc = "error")

(* every value-toll link has been selected as often as the cap allows, in  *)
(* cycles of their own, and the cycle after the last of them set the flag  *)
C12_Witness ==
    /\ pc = "assign"
    /\ stop_dynamic_toll
    /\ dynamic_toll_change = 0
    /\ dynamic_toll_iter = 7
    /\ \A t \in Periods, l \in ValueLinks : Capped(l, scenario[t][l])

\* the links whose value toll a step of _set_tolls has changed
ValueTollChanged == {l \in Links : network'[l].valuetoll # network[l].valuetoll}

(* C13: under the dynamic policy dynamic_toll_change is reset to 0 when     *)
(* run() is entered and every _set_tolls of the call adds to it the number  *)
(* of links of its period whose value toll it has changed, so that at the   *)
(* end of the call the counter is the number of (time period, link) pairs   *)
(* whose value toll changed in the pass; and the closing block advances an  *)
(* already positive _dynamic_toll_iter only after a pass that changed the   *)
(* value toll of some link.                                                 *)
C13_CountsRealChanges ==
    [][ cfg.run_dynamic_toll =>
          /\ (pc = "idle" /\ pc' = "scenario") => dynamic_toll_change' = 0
          /\ (pc = "set_tolls" /\ pc' = "set_vdf_attributes") =>
                dynamic_toll_change' =
                    dynamic_toll_change + Cardinality(ValueTollChanged)
          /\ (pc = "dynamic_toll" /\ dynamic_toll_iter > 0
                   /\ dynamic_toll_iter' > dynamic_toll_iter) =>
                dynamic_toll_change > 0 ]_vars

====
